---- MODULE Spec2Model ----
(***************************************************************************)
(* Model of the nefsm state machine engine (nefsm/src/lib.rs): the         *)
(* synchronous engine `sync::StateMachine` and the asynchronous engine     *)
(* `Async::StateMachine`.  The engine's fields are the variables; the      *)
(* user-supplied callbacks (Stateful::on_enter / on_event / on_exit and    *)
(* EventHandler::on_event) are the environment: every invocation may       *)
(* answer with any Response and may change the context.  One step of the   *)
(* model is one callback invocation together with the engine code that     *)
(* leads to it and that branches on its answer, so that a cascade that     *)
(* does not settle is a behaviour of the model as well.                    *)
(***************************************************************************)
EXTENDS Integers, Sequences, FiniteSets, TLC

\* ------------------------------------------------------------------ bounds
NumStates == 3      \* number of State Identity values (the enum S)
NumEvents == 1      \* number of event values (the enum E)
NumMsgs == 2        \* number of distinct Error(String) messages
MaxCtx == 1         \* the context counter is followed up to this value
MaxCascade == 2     \* on_enter invocations followed within one call
MaxCount == 4       \* test machines: events are sent while the counter is at most this
MaxPingPong == 4    \* on_enter invocations followed in the two-state entry cycle

\* ------------------------------------------------------------- data model
StateIds == 1..NumStates
Events == 1..NumEvents
Msgs == 1..NumMsgs
Contexts == 0..MaxCtx
None == 0
Variants == {"sync", "async"}

Handled == [tag |-> "Handled"]
Error(m) == [tag |-> "Error", msg |-> m]
Transition(s) == [tag |-> "Transition", s |-> s]
Response == {Handled} \cup {Error(m) : m \in Msgs} \cup {Transition(s) : s \in StateIds}
Unit == [tag |-> "Unit"]

Ok == [tag |-> "Ok"]
StateInvalid(m) == [tag |-> "StateInvalid", msg |-> m]
InvalidEvent(m) == [tag |-> "InvalidEvent", msg |-> m]
StateMachineNotInitialized == [tag |-> "StateMachineNotInitialized"]
NoResult == [tag |-> "NoResult"]

VARIABLES
    variant,                \* which engine: sync::StateMachine or Async::StateMachine
    global_event_handler,   \* TRUE iff the Option holds a handler
    states,                 \* keys of the behavior cache (HashMap<S, Box<dyn Stateful>>)
    current_state,          \* Option<S>: None or a state identity
    context,                \* CTX, a counter
    pc,                     \* position of the running call, "idle" between calls
    next_state,             \* the local next_state of init / transition_to
    event,                  \* the event argument of the running process_event
    origin,                 \* call site of transition_to: "handler" or "event"
    result,                 \* what the last finished call returned
    call,                   \* the call in progress or last finished: operation, argument,
                            \* current_state when it started
    log,                    \* callbacks invoked by that call, in order
    scenario,               \* which callbacks the engine was built with: "free" (any
                            \* answers) or the behaviors of one of the test machines
    create_count,           \* per state identity, how often S::create was invoked
    exit_pending,           \* TRUE iff the current state's behavior got on_exit and no
                            \* on_enter since
    in_flight               \* Async: callbacks whose future was created and has not
                            \* completed; always empty where callbacks are plain calls

vars == <<variant, global_event_handler, states, current_state, context, pc,
          next_state, event, origin, result, call, log, scenario, create_count, exit_pending,
          in_flight>>

\* --------------------------------------------------------- the environment
\* A callback gets &mut CTX: it may leave the counter or increment it.
CtxEffects(ctx) == {ctx} \cup (IF ctx < MaxCtx THEN {ctx + 1} ELSE {})

\* The counter-gate machine of tests/error_test.rs.
State1 == 1
State2 == 2
TestEvent_InvalidEvent == 1
TestEvent_TransitionToState2 == 2

gate_on_enter(s, ctx) ==
    IF s = State1 THEN [resp |-> Handled, ctx |-> ctx]
    ELSE IF ctx = 2 THEN [resp |-> Handled, ctx |-> ctx]
    ELSE [resp |-> Error("counter needs to be 2 to enter TestState2"), ctx |-> ctx]

gate_on_event(s, e, ctx) ==
    IF s = State1
    THEN IF e = TestEvent_InvalidEvent
         THEN [resp |-> Error("cannot handle event1"), ctx |-> ctx]
         ELSE [resp |-> Transition(State2), ctx |-> ctx + 1]
    ELSE IF e = TestEvent_InvalidEvent
         THEN [resp |-> Error("cannot handle event1"), ctx |-> ctx]
         ELSE [resp |-> Error("already in state2"), ctx |-> ctx]

\* The three-state cycle machine of tests/test_complete.rs and its global handler.
A == 1
B == 2
C == 3
TransitionToB == 1
TransitionToC == 2
TransitionToA == 3
NoTransition == 4
IncrementByTwo == 5

cycle_on_enter(s, ctx) == [resp |-> Handled, ctx |-> ctx + 1]

cycle_on_event(s, e, ctx) ==
    CASE s = A /\ e = TransitionToB -> [resp |-> Transition(B), ctx |-> ctx]
      [] s = B /\ e = TransitionToC -> [resp |-> Transition(C), ctx |-> ctx]
      [] s = C /\ e = TransitionToA -> [resp |-> Transition(A), ctx |-> ctx]
      [] OTHER -> [resp |-> Handled, ctx |-> ctx]

cycle_handler_on_event(e, ctx) ==
    IF e = IncrementByTwo THEN [resp |-> Transition(B), ctx |-> ctx + 2]
    ELSE [resp |-> Handled, ctx |-> ctx]

\* A machine whose entries form a cycle: on_enter of A always asks for B,
\* on_enter of B always asks for A; C settles and sends its events to A or B.
pingpong_on_enter(s, ctx) ==
    CASE s = A -> [resp |-> Transition(B), ctx |-> ctx]
      [] s = B -> [resp |-> Transition(A), ctx |-> ctx]
      [] OTHER -> [resp |-> Handled, ctx |-> ctx]

pingpong_on_event(s, e, ctx) ==
    IF e = 1 THEN [resp |-> Transition(A), ctx |-> ctx]
    ELSE [resp |-> Transition(B), ctx |-> ctx]

ScenarioStates ==
    CASE scenario = "gate" -> {State1, State2}
      [] OTHER -> {A, B, C}

ScenarioEvents ==
    CASE scenario = "gate" -> {TestEvent_InvalidEvent, TestEvent_TransitionToState2}
      [] scenario = "cycle" -> {TransitionToB, TransitionToC, TransitionToA, NoTransition, IncrementByTwo}
      [] OTHER -> {1, 2}

\* Stateful::on_enter, Stateful::on_event, EventHandler::on_event: any Response
\* when the behaviors are left open, else the answer of the test machine.
on_enter(s, ctx) ==
    CASE scenario = "free" -> {[resp |-> r, ctx |-> c] : r \in Response, c \in CtxEffects(ctx)}
      [] scenario = "gate" -> {gate_on_enter(s, ctx)}
      [] scenario = "cycle" -> {cycle_on_enter(s, ctx)}
      [] scenario = "pingpong" -> {pingpong_on_enter(s, ctx)}

on_event(s, e, ctx) ==
    CASE scenario = "free" -> {[resp |-> r, ctx |-> c] : r \in Response, c \in CtxEffects(ctx)}
      [] scenario = "gate" -> {gate_on_event(s, e, ctx)}
      [] scenario = "cycle" -> {cycle_on_event(s, e, ctx)}
      [] scenario = "pingpong" -> {pingpong_on_event(s, e, ctx)}

handler_on_event(e, ctx) ==
    CASE scenario = "cycle" -> {cycle_handler_on_event(e, ctx)}
      [] OTHER -> {[resp |-> r, ctx |-> c] : r \in Response, c \in CtxEffects(ctx)}

\* Stateful::on_exit returns nothing; the test machines' on_exit are empty.
on_exit(s, ctx) ==
    CASE scenario = "free" -> {[resp |-> Unit, ctx |-> c] : c \in CtxEffects(ctx)}
      [] OTHER -> {[resp |-> Unit, ctx |-> ctx]}

\* how many on_enter invocations of one call are followed
CascadeBound == IF scenario = "pingpong" THEN MaxPingPong ELSE MaxCascade

Entry(cb, s, ctxIn, out) == [cb |-> cb, st |-> s, resp |-> out.resp, ctxIn |-> ctxIn, ctxOut |-> out.ctx]

Enters(l) == {i \in 1..Len(l) : l[i].cb = "on_enter"}
Exits(l) == {i \in 1..Len(l) : l[i].cb = "on_exit"}
StateEvents(l) == {i \in 1..Len(l) : l[i].cb = "on_event"}
HandlerEvents(l) == {i \in 1..Len(l) : l[i].cb = "handler_on_event"}

\* ------------------------------------------------------------- engine code
\* faulty variant of FetchOrCreate: the created behavior is not kept
FetchOrCreate_NoInsert(cache, s) == cache

\* states.get_mut(s) or S::create(s) + states.entry(s).or_insert(..)
FetchOrCreate(cache, s) == cache \cup {s}

\* faulty variant of Create: the factory is invoked without looking into the cache
Create_Always(counts, cache, s) == [counts EXCEPT ![s] = @ + 1]

\* S::create(s) is invoked when states.get_mut(s) finds nothing
Create(counts, cache, s) ==
    IF s \in cache THEN counts ELSE [counts EXCEPT ![s] = @ + 1]

\* faulty variants of InitBranch: Handled does not leave the loop; the
\* requested state is not taken as the next candidate; Error settles the state
InitBranch_NoBreak(resp, next) ==
    CASE resp.tag = "Handled" -> [kind |-> "loop", next_state |-> next]
      [] resp.tag = "Error" -> [kind |-> "return", next_state |-> next, res |-> StateInvalid(resp.msg)]
      [] resp.tag = "Transition" -> [kind |-> "loop", next_state |-> resp.s]

InitBranch_KeepCandidate(resp, next) ==
    CASE resp.tag = "Handled" -> [kind |-> "break", next_state |-> next]
      [] resp.tag = "Error" -> [kind |-> "return", next_state |-> next, res |-> StateInvalid(resp.msg)]
      [] resp.tag = "Transition" -> [kind |-> "loop", next_state |-> next]

InitBranch_ErrorSettles(resp, next) ==
    CASE resp.tag = "Handled" -> [kind |-> "break", next_state |-> next]
      [] resp.tag = "Error" -> [kind |-> "break", next_state |-> next]
      [] resp.tag = "Transition" -> [kind |-> "loop", next_state |-> resp.s]

\* the match on on_enter's Response in init's loop
InitBranch(resp, next) ==
    CASE resp.tag = "Handled" -> [kind |-> "break", next_state |-> next]
      [] resp.tag = "Error" -> [kind |-> "return", next_state |-> next, res |-> StateInvalid(resp.msg)]
      [] resp.tag = "Transition" -> [kind |-> "loop", next_state |-> resp.s]

\* faulty variant of CascadeBranch: Error leaves the loop like Handled
CascadeBranch_ErrorCommits(resp, next) ==
    CASE resp.tag = "Handled" -> [kind |-> "break", next_state |-> next]
      [] resp.tag = "Error" -> [kind |-> "break", next_state |-> next]
      [] resp.tag = "Transition" ->
            IF resp.s = next THEN [kind |-> "break", next_state |-> next]
            ELSE [kind |-> "loop", next_state |-> resp.s]

\* faulty variant of CascadeBranch: any requested transition ends the cascade
CascadeBranch_StopOnTransition(resp, next) ==
    CASE resp.tag = "Handled" -> [kind |-> "break", next_state |-> next]
      [] resp.tag = "Error" -> [kind |-> "return", next_state |-> next, res |-> StateInvalid(resp.msg)]
      [] resp.tag = "Transition" -> [kind |-> "break", next_state |-> next]

\* faulty variant of CascadeBranch: no comparison with the candidate just entered
CascadeBranch_NoGuard(resp, next) ==
    CASE resp.tag = "Handled" -> [kind |-> "break", next_state |-> next]
      [] resp.tag = "Error" -> [kind |-> "return", next_state |-> next, res |-> StateInvalid(resp.msg)]
      [] resp.tag = "Transition" -> [kind |-> "loop", next_state |-> resp.s]

\* faulty variant of CascadeBranch: a candidate's request is also compared with
\* the current state, and a request for the current state ends the cascade
CascadeBranch_CompareCurrent(resp, next) ==
    CASE resp.tag = "Handled" -> [kind |-> "break", next_state |-> next]
      [] resp.tag = "Error" -> [kind |-> "return", next_state |-> next, res |-> StateInvalid(resp.msg)]
      [] resp.tag = "Transition" ->
            IF resp.s = next \/ resp.s = current_state
            THEN [kind |-> "break", next_state |-> next]
            ELSE [kind |-> "loop", next_state |-> resp.s]

\* the match on on_enter's Response in transition_to's loop
CascadeBranch(resp, next) ==
    CASE resp.tag = "Handled" -> [kind |-> "break", next_state |-> next]
      [] resp.tag = "Error" -> [kind |-> "return", next_state |-> next, res |-> StateInvalid(resp.msg)]
      [] resp.tag = "Transition" ->
            IF resp.s = next THEN [kind |-> "break", next_state |-> next]
            ELSE [kind |-> "loop", next_state |-> resp.s]

\* faulty variant of HandlerBranch: a requested transition is ignored
HandlerBranch_Ignore(resp, c_state) ==
    CASE resp.tag = "Handled" -> [kind |-> "fallthrough"]
      [] resp.tag = "Error" -> [kind |-> "return", res |-> InvalidEvent(resp.msg)]
      [] resp.tag = "Transition" -> [kind |-> "fallthrough"]

\* faulty variant of HandlerBranch: a rejected event is still offered to the
\* active state
HandlerBranch_ErrorFallsThrough(resp, c_state) ==
    CASE resp.tag = "Handled" -> [kind |-> "fallthrough"]
      [] resp.tag = "Error" -> [kind |-> "fallthrough"]
      [] resp.tag = "Transition" ->
            IF resp.s # c_state THEN [kind |-> "transition_to", new_state |-> resp.s]
            ELSE [kind |-> "fallthrough"]

\* faulty variant of HandlerBranch: no comparison with the current state
HandlerBranch_NoSelfCheck(resp, c_state) ==
    CASE resp.tag = "Handled" -> [kind |-> "fallthrough"]
      [] resp.tag = "Error" -> [kind |-> "return", res |-> InvalidEvent(resp.msg)]
      [] resp.tag = "Transition" -> [kind |-> "transition_to", new_state |-> resp.s]

\* the match on the global handler's Response in process_event
HandlerBranch(resp, c_state) ==
    CASE resp.tag = "Handled" -> [kind |-> "fallthrough"]
      [] resp.tag = "Error" -> [kind |-> "return", res |-> InvalidEvent(resp.msg)]
      [] resp.tag = "Transition" ->
            IF resp.s # c_state THEN [kind |-> "transition_to", new_state |-> resp.s]
            ELSE [kind |-> "fallthrough"]

\* faulty variant of EventBranch: a handled event re-enters the current state
EventBranch_HandledReenters(resp, c_state) ==
    CASE resp.tag = "Handled" -> [kind |-> "transition_to", new_state |-> c_state]
      [] resp.tag = "Error" -> [kind |-> "return", res |-> InvalidEvent(resp.msg)]
      [] resp.tag = "Transition" ->
            IF resp.s # c_state THEN [kind |-> "transition_to", new_state |-> resp.s]
            ELSE [kind |-> "return", res |-> Ok]

\* faulty variant of EventBranch: a requested transition is answered with Ok
EventBranch_IgnoreTransition(resp, c_state) ==
    CASE resp.tag = "Handled" -> [kind |-> "return", res |-> Ok]
      [] resp.tag = "Error" -> [kind |-> "return", res |-> InvalidEvent(resp.msg)]
      [] resp.tag = "Transition" -> [kind |-> "return", res |-> Ok]

\* faulty variants of EventBranch: no comparison with the current state;
\* Error answered with Ok
EventBranch_NoSelfCheck(resp, c_state) ==
    CASE resp.tag = "Handled" -> [kind |-> "return", res |-> Ok]
      [] resp.tag = "Error" -> [kind |-> "return", res |-> InvalidEvent(resp.msg)]
      [] resp.tag = "Transition" -> [kind |-> "transition_to", new_state |-> resp.s]

EventBranch_ErrorOk(resp, c_state) ==
    CASE resp.tag = "Handled" -> [kind |-> "return", res |-> Ok]
      [] resp.tag = "Error" -> [kind |-> "return", res |-> Ok]
      [] resp.tag = "Transition" ->
            IF resp.s # c_state THEN [kind |-> "transition_to", new_state |-> resp.s]
            ELSE [kind |-> "return", res |-> Ok]

\* the match on the active state's Response in process_event
EventBranch(resp, c_state) ==
    CASE resp.tag = "Handled" -> [kind |-> "return", res |-> Ok]
      [] resp.tag = "Error" -> [kind |-> "return", res |-> InvalidEvent(resp.msg)]
      [] resp.tag = "Transition" ->
            IF resp.s # c_state THEN [kind |-> "transition_to", new_state |-> resp.s]
            ELSE [kind |-> "return", res |-> Ok]

\* faulty variant of InitializedGuard: the missing state is answered with Ok
InitializedGuard_Ok(cs) ==
    IF cs = None THEN [kind |-> "return", res |-> Ok]
    ELSE [kind |-> "continue", c_state |-> cs]

\* let c_state = match &self.current_state { Some(state) => state,
\*                                            None => return Err(StateMachineNotInitialized) }
InitializedGuard(cs) ==
    IF cs = None THEN [kind |-> "return", res |-> StateMachineNotInitialized]
    ELSE [kind |-> "continue", c_state |-> cs]

\* what process_event returns once transition_to has returned r
\*   sync, handler:   return self.transition_to(new_state);
\*   sync, event:     self.transition_to(new_state)?;  Ok(())
\*   async, handler:  self.transition_to(new_state).await;  return Ok(());
\*   async, event:    return self.transition_to(new_state).await;
TransitionResult(v, from, r) ==
    IF v = "async" /\ from = "handler" THEN Ok ELSE r

\* ------------------------------------------------------------------- Init
\* StateMachine::new(context, handler)
InitFields ==
    /\ states = {}
    /\ current_state = None
    /\ context = 0
    /\ pc = "idle"
    /\ next_state = None
    /\ event = None
    /\ origin = "none"
    /\ result = NoResult
    /\ call = [op |-> "new", arg |-> None, pre |-> None]
    /\ log = <<>>
    /\ create_count = [s \in StateIds |-> 0]
    /\ exit_pending = FALSE
    /\ in_flight = {}

\* an engine of either variant, with or without handler, any behaviors
Init ==
    /\ variant \in Variants
    /\ global_event_handler \in BOOLEAN
    /\ scenario = "free"
    /\ InitFields

\* an engine built with one of the test machines; only the cycle machine has
\* a global handler (TestGlobalHandler)
ScenarioInit ==
    /\ variant \in Variants
    /\ scenario \in {"gate", "cycle", "pingpong"}
    /\ global_event_handler \in (IF scenario = "cycle" THEN BOOLEAN ELSE {FALSE})
    /\ InitFields

\* a call returns res to its caller
Return(res) ==
    /\ pc' = "idle"
    /\ result' = res
    /\ next_state' = None
    /\ event' = None
    /\ origin' = "none"

\* the callback the engine invokes next, by the position of the running call
PendingCallback ==
    CASE pc = "init_loop" -> [cb |-> "on_enter", st |-> next_state]
      [] pc = "handler" -> [cb |-> "handler_on_event", st |-> None]
      [] pc = "event" -> [cb |-> "on_event", st |-> current_state]
      [] pc = "transition_to" -> [cb |-> "on_exit", st |-> current_state]
      [] pc = "transition_loop" -> [cb |-> "on_enter", st |-> next_state]
      [] OTHER -> [cb |-> "none", st |-> None]

\* faulty variant of init: an engine whose cache was filled by a failed attempt
\* is taken for initialized
init_NoRetry(initial_state) ==
    /\ pc = "idle"
    /\ call' = [op |-> "init", arg |-> initial_state, pre |-> current_state]
    /\ log' = <<>>
    /\ IF current_state = None /\ states = {}
       THEN /\ next_state' = initial_state
            /\ pc' = "init_loop"
            /\ result' = NoResult
            /\ UNCHANGED <<event, origin>>
       ELSE Return(Ok)
    /\ UNCHANGED <<variant, global_event_handler, states, current_state, context,
                   scenario, create_count, exit_pending, in_flight>>

\* faulty variant of init: an initialized engine is initialized again
init_Reinit(initial_state) ==
    /\ pc = "idle"
    /\ call' = [op |-> "init", arg |-> initial_state, pre |-> current_state]
    /\ log' = <<>>
    /\ next_state' = initial_state
    /\ pc' = "init_loop"
    /\ result' = NoResult
    /\ UNCHANGED <<event, origin>>
    /\ UNCHANGED <<variant, global_event_handler, states, current_state, context,
                   scenario, create_count, exit_pending, in_flight>>

\* ------------------------------------------------------------------- init
\* init(initial_state): entry of the call, up to the first on_enter
init(initial_state) ==
    /\ pc = "idle"
    /\ call' = [op |-> "init", arg |-> initial_state, pre |-> current_state]
    /\ log' = <<>>
    /\ IF current_state = None
       THEN /\ next_state' = initial_state
            /\ pc' = "init_loop"
            /\ result' = NoResult
            /\ UNCHANGED <<event, origin>>
       ELSE Return(Ok)
    /\ UNCHANGED <<variant, global_event_handler, states, current_state, context,
                   scenario, create_count, exit_pending, in_flight>>

\* one iteration of init's loop: fetch or create the behavior, on_enter, match
init_loop ==
    /\ pc = "init_loop"
    /\ Cardinality(Enters(log)) < CascadeBound
    /\ states' = FetchOrCreate(states, next_state)
    /\ create_count' = Create(create_count, states, next_state)
    /\ \E out \in on_enter(next_state, context) :
          LET b == InitBranch(out.resp, next_state) IN
          /\ context' = out.ctx
          /\ log' = Append(log, Entry("on_enter", next_state, context, out))
          /\ CASE b.kind = "break" ->
                    /\ current_state' = b.next_state
                    /\ exit_pending' = FALSE
                    /\ Return(Ok)
               [] b.kind = "return" ->
                    /\ Return(b.res)
                    /\ UNCHANGED <<current_state, exit_pending>>
               [] b.kind = "loop" ->
                    /\ next_state' = b.next_state
                    /\ UNCHANGED <<current_state, exit_pending, pc, result, event, origin>>
    /\ UNCHANGED <<variant, global_event_handler, call, scenario>>
    /\ in_flight' = in_flight \ {PendingCallback}

\* faulty variant of process_event: the global handler is not consulted
process_event_SkipHandler(e) ==
    /\ pc = "idle"
    /\ call' = [op |-> "process_event", arg |-> e, pre |-> current_state]
    /\ log' = <<>>
    /\ IF InitializedGuard(current_state).kind = "return"
       THEN Return(InitializedGuard(current_state).res)
       ELSE /\ event' = e
            /\ pc' = "event"
            /\ result' = NoResult
            /\ UNCHANGED <<next_state, origin>>
    /\ UNCHANGED <<variant, global_event_handler, states, current_state, context,
                   scenario, create_count, exit_pending, in_flight>>

\* ---------------------------------------------------------- process_event
\* process_event(event): entry of the call, up to the first callback
process_event(e) ==
    /\ pc = "idle"
    /\ call' = [op |-> "process_event", arg |-> e, pre |-> current_state]
    /\ log' = <<>>
    /\ IF InitializedGuard(current_state).kind = "return"
       THEN Return(InitializedGuard(current_state).res)
       ELSE /\ event' = e
            /\ pc' = IF global_event_handler THEN "handler" ELSE "event"
            /\ result' = NoResult
            /\ UNCHANGED <<next_state, origin>>
    /\ UNCHANGED <<variant, global_event_handler, states, current_state, context,
                   scenario, create_count, exit_pending, in_flight>>

\* if let Some(global_handler): global_handler.on_event, match
process_event_handler ==
    /\ pc = "handler"
    /\ \E out \in handler_on_event(event, context) :
          LET b == HandlerBranch(out.resp, current_state) IN
          /\ context' = out.ctx
          /\ log' = Append(log, Entry("handler_on_event", None, context, out))
          /\ CASE b.kind = "fallthrough" ->
                    /\ pc' = "event"
                    /\ UNCHANGED <<next_state, event, origin, result>>
               [] b.kind = "return" -> Return(b.res)
               [] b.kind = "transition_to" ->
                    /\ pc' = "transition_to"
                    /\ next_state' = b.new_state
                    /\ origin' = "handler"
                    /\ UNCHANGED <<event, result>>
    /\ UNCHANGED <<variant, global_event_handler, states, current_state, call,
                   scenario, create_count, exit_pending>>
    /\ in_flight' = in_flight \ {PendingCallback}

\* fetch or create the active behavior, state.on_event, match
process_event_state ==
    /\ pc = "event"
    /\ states' = FetchOrCreate(states, current_state)
    /\ create_count' = Create(create_count, states, current_state)
    /\ \E out \in on_event(current_state, event, context) :
          LET b == EventBranch(out.resp, current_state) IN
          /\ context' = out.ctx
          /\ log' = Append(log, Entry("on_event", current_state, context, out))
          /\ CASE b.kind = "return" -> Return(b.res)
               [] b.kind = "transition_to" ->
                    /\ pc' = "transition_to"
                    /\ next_state' = b.new_state
                    /\ origin' = "event"
                    /\ UNCHANGED <<event, result>>
    /\ UNCHANGED <<variant, global_event_handler, current_state, call, scenario, exit_pending>>
    /\ in_flight' = in_flight \ {PendingCallback}

\* faulty variant of transition_to: the engine goes on to the entry loop while
\* the future of on_exit is still running
transition_to_NotAwaited ==
    /\ pc = "transition_to"
    /\ IF current_state \in states
       THEN \E out \in on_exit(current_state, context) :
               /\ context' = out.ctx
               /\ log' = Append(log, Entry("on_exit", current_state, context, out))
               /\ pc' = "transition_loop"
               /\ exit_pending' = TRUE
       ELSE /\ pc' = "panic"
            /\ UNCHANGED <<context, log, exit_pending>>
    /\ UNCHANGED <<variant, global_event_handler, states, current_state,
                   next_state, event, origin, result, call, scenario, create_count>>
    /\ UNCHANGED in_flight

\* faulty variant of transition_to: the outgoing behavior's on_exit is skipped
transition_to_NoExit ==
    /\ pc = "transition_to"
    /\ pc' = "transition_loop"
    /\ UNCHANGED <<variant, global_event_handler, states, current_state, context,
                   next_state, event, origin, result, call, log, scenario,
                   create_count, exit_pending, in_flight>>

\* ---------------------------------------------------------- transition_to
\* transition_to(new_state), first part: the outgoing behavior's on_exit.
\* states.get_mut(&c_state).unwrap() panics when the key is missing.
transition_to ==
    /\ pc = "transition_to"
    /\ IF current_state \in states
       THEN \E out \in on_exit(current_state, context) :
               /\ context' = out.ctx
               /\ log' = Append(log, Entry("on_exit", current_state, context, out))
               /\ pc' = "transition_loop"
               /\ exit_pending' = TRUE
       ELSE /\ pc' = "panic"
            /\ UNCHANGED <<context, log, exit_pending>>
    /\ UNCHANGED <<variant, global_event_handler, states, current_state,
                   next_state, event, origin, result, call, scenario, create_count>>
    /\ in_flight' = in_flight \ {PendingCallback}

\* faulty variant of transition_loop: a state that is passed through is exited
\* before the next candidate is entered
transition_loop_ExitPassThrough ==
    /\ pc = "transition_loop"
    /\ Cardinality(Enters(log)) < CascadeBound
    /\ states' = FetchOrCreate(states, next_state)
    /\ create_count' = Create(create_count, states, next_state)
    /\ \E out \in on_enter(next_state, context) :
          LET b == CascadeBranch(out.resp, next_state)
              entered == Append(log, Entry("on_enter", next_state, context, out))
          IN
          /\ context' = out.ctx
          /\ CASE b.kind = "break" ->
                    /\ log' = entered
                    /\ current_state' = b.next_state
                    /\ exit_pending' = FALSE
                    /\ Return(TransitionResult(variant, origin, Ok))
               [] b.kind = "return" ->
                    /\ log' = entered
                    /\ Return(TransitionResult(variant, origin, b.res))
                    /\ exit_pending' = (exit_pending /\ next_state # current_state)
                    /\ UNCHANGED current_state
               [] b.kind = "loop" ->
                    /\ log' = Append(entered, Entry("on_exit", next_state, out.ctx,
                                                    [resp |-> Unit, ctx |-> out.ctx]))
                    /\ next_state' = b.next_state
                    /\ exit_pending' = (exit_pending /\ next_state # current_state)
                    /\ UNCHANGED <<current_state, pc, result, event, origin>>
    /\ UNCHANGED <<variant, global_event_handler, call, scenario>>
    /\ in_flight' = in_flight \ {PendingCallback}

\* faulty variant of transition_loop: a rejected entry leaves the engine without
\* a current state
transition_loop_ErrorUnsets ==
    /\ pc = "transition_loop"
    /\ Cardinality(Enters(log)) < CascadeBound
    /\ states' = FetchOrCreate(states, next_state)
    /\ create_count' = Create(create_count, states, next_state)
    /\ \E out \in on_enter(next_state, context) :
          LET b == CascadeBranch(out.resp, next_state) IN
          /\ context' = out.ctx
          /\ log' = Append(log, Entry("on_enter", next_state, context, out))
          /\ CASE b.kind = "break" ->
                    /\ current_state' = b.next_state
                    /\ exit_pending' = FALSE
                    /\ Return(TransitionResult(variant, origin, Ok))
               [] b.kind = "return" ->
                    /\ Return(TransitionResult(variant, origin, b.res))
                    /\ exit_pending' = FALSE
                    /\ current_state' = None
               [] b.kind = "loop" ->
                    /\ next_state' = b.next_state
                    /\ exit_pending' = (exit_pending /\ next_state # current_state)
                    /\ UNCHANGED <<current_state, pc, result, event, origin>>
    /\ UNCHANGED <<variant, global_event_handler, call, scenario>>
    /\ in_flight' = in_flight \ {PendingCallback}

\* faulty variant of transition_loop: the event is delivered again, to the state
\* the cascade settled in
transition_loop_Redispatch ==
    /\ pc = "transition_loop"
    /\ Cardinality(Enters(log)) < CascadeBound
    /\ states' = FetchOrCreate(states, next_state)
    /\ create_count' = Create(create_count, states, next_state)
    /\ \E out \in on_enter(next_state, context) :
          LET b == CascadeBranch(out.resp, next_state) IN
          /\ context' = out.ctx
          /\ log' = Append(log, Entry("on_enter", next_state, context, out))
          /\ CASE b.kind = "break" ->
                    /\ current_state' = b.next_state
                    /\ exit_pending' = FALSE
                    /\ pc' = "event"
                    /\ UNCHANGED <<next_state, result, event, origin>>
               [] b.kind = "return" ->
                    /\ Return(TransitionResult(variant, origin, b.res))
                    /\ exit_pending' = (exit_pending /\ next_state # current_state)
                    /\ UNCHANGED current_state
               [] b.kind = "loop" ->
                    /\ next_state' = b.next_state
                    /\ exit_pending' = (exit_pending /\ next_state # current_state)
                    /\ UNCHANGED <<current_state, pc, result, event, origin>>
    /\ UNCHANGED <<variant, global_event_handler, call, scenario>>
    /\ in_flight' = in_flight \ {PendingCallback}

\* faulty variant of transition_loop: a rejected entry restores the context the
\* call started with
transition_loop_Rollback ==
    /\ pc = "transition_loop"
    /\ Cardinality(Enters(log)) < CascadeBound
    /\ states' = FetchOrCreate(states, next_state)
    /\ create_count' = Create(create_count, states, next_state)
    /\ \E out \in on_enter(next_state, context) :
          LET b == CascadeBranch(out.resp, next_state) IN
          /\ log' = Append(log, Entry("on_enter", next_state, context, out))
          /\ CASE b.kind = "break" ->
                    /\ context' = out.ctx
                    /\ current_state' = b.next_state
                    /\ exit_pending' = FALSE
                    /\ Return(TransitionResult(variant, origin, Ok))
               [] b.kind = "return" ->
                    /\ context' = log[1].ctxIn
                    /\ Return(TransitionResult(variant, origin, b.res))
                    /\ exit_pending' = (exit_pending /\ next_state # current_state)
                    /\ UNCHANGED current_state
               [] b.kind = "loop" ->
                    /\ context' = out.ctx
                    /\ next_state' = b.next_state
                    /\ exit_pending' = (exit_pending /\ next_state # current_state)
                    /\ UNCHANGED <<current_state, pc, result, event, origin>>
    /\ UNCHANGED <<variant, global_event_handler, call, scenario>>
    /\ in_flight' = in_flight \ {PendingCallback}

\* one iteration of transition_to's loop, and the return through process_event
transition_loop ==
    /\ pc = "transition_loop"
    /\ Cardinality(Enters(log)) < CascadeBound
    /\ states' = FetchOrCreate(states, next_state)
    /\ create_count' = Create(create_count, states, next_state)
    /\ \E out \in on_enter(next_state, context) :
          LET b == CascadeBranch(out.resp, next_state) IN
          /\ context' = out.ctx
          /\ log' = Append(log, Entry("on_enter", next_state, context, out))
          /\ CASE b.kind = "break" ->
                    /\ current_state' = b.next_state
                    /\ exit_pending' = FALSE
                    /\ Return(TransitionResult(variant, origin, Ok))
               [] b.kind = "return" ->
                    /\ Return(TransitionResult(variant, origin, b.res))
                    /\ exit_pending' = (exit_pending /\ next_state # current_state)
                    /\ UNCHANGED current_state
               [] b.kind = "loop" ->
                    /\ next_state' = b.next_state
                    /\ exit_pending' = (exit_pending /\ next_state # current_state)
                    /\ UNCHANGED <<current_state, pc, result, event, origin>>
    /\ UNCHANGED <<variant, global_event_handler, call, scenario>>
    /\ in_flight' = in_flight \ {PendingCallback}

\* Async: the callback of the current position is called, which creates its
\* future; the engine is suspended in the .await until the future completes
callback_start ==
    /\ variant = "async"
    /\ pc \in {"init_loop", "handler", "event", "transition_to", "transition_loop"}
    /\ pc \in {"init_loop", "transition_loop"} => Cardinality(Enters(log)) < CascadeBound
    /\ PendingCallback \notin in_flight
    /\ in_flight' = in_flight \cup {PendingCallback}
    /\ UNCHANGED <<variant, global_event_handler, states, current_state, context, pc,
                   next_state, event, origin, result, call, log, scenario,
                   create_count, exit_pending>>

Next ==
    \/ \E s \in StateIds : init(s)
    \/ init_loop
    \/ \E e \in Events : process_event(e)
    \/ process_event_handler
    \/ process_event_state
    \/ transition_to
    \/ transition_loop

Spec == Init /\ [][Next]_vars

\* the caller of a test machine sends events while the counter is within bounds
CallBound == context <= MaxCount

ScenarioNext ==
    \/ \E s \in ScenarioStates : init(s)
    \/ init_loop
    \/ \E e \in ScenarioEvents : CallBound /\ process_event(e)
    \/ process_event_handler
    \/ process_event_state
    \/ transition_to
    \/ transition_loop

ScenarioSpec == ScenarioInit /\ [][ScenarioNext]_vars

\* the asynchronous engine with its suspension points: a callback is started,
\* and the step that takes its answer happens when its future has completed
AwaitInit ==
    /\ variant = "async"
    /\ global_event_handler \in BOOLEAN
    /\ scenario = "free"
    /\ InitFields

AwaitNext ==
    \/ \E s \in StateIds : init(s)
    \/ \E e \in Events : process_event(e)
    \/ callback_start
    \/ PendingCallback \in in_flight /\ init_loop
    \/ PendingCallback \in in_flight /\ process_event_handler
    \/ PendingCallback \in in_flight /\ process_event_state
    \/ PendingCallback \in in_flight /\ transition_to
    \/ PendingCallback \in in_flight /\ transition_loop

AwaitSpec == AwaitInit /\ [][AwaitNext]_vars

TypeOK ==
    /\ variant \in Variants
    /\ global_event_handler \in BOOLEAN
    /\ states \subseteq StateIds
    /\ current_state \in StateIds \cup {None}
    /\ context \in Contexts
    /\ pc \in {"idle", "init_loop", "handler", "event", "transition_to", "transition_loop", "panic"}
    /\ next_state \in StateIds \cup {None}
    /\ event \in Events \cup {None}
    /\ origin \in {"none", "handler", "event"}
    /\ in_flight \subseteq [cb : {"on_enter", "on_exit", "on_event", "handler_on_event"},
                           st : StateIds \cup {None}]

\* ------------------------------------------------------------- properties
IsErr(r) == r.tag \in {"StateInvalid", "InvalidEvent", "StateMachineNotInitialized"}

\* the call in progress (or last finished) is an init that found no current state
InitCall == call.op = "init" /\ call.pre = None
\* the call in progress (or last finished) is a process_event on an initialized engine
EventCall == call.op = "process_event" /\ call.pre # None

\* an on_enter answer that ends a transition cascade without error
Settled(e) ==
    /\ e.cb = "on_enter"
    /\ \/ e.resp = Handled
       \/ e.resp.tag = "Transition" /\ e.resp.s = e.st

\* C1: when the first on_enter of an init on an engine without current state
\* answers Handled, the call has returned Ok, the current state is the initial
\* state, and the only callback invoked is that one on_enter of the initial state.
C1_InitHandled ==
    (InitCall /\ Len(log) >= 1 /\ log[1].resp = Handled)
        => /\ pc = "idle"
           /\ result = Ok
           /\ current_state = call.arg
           /\ Len(log) = 1
           /\ log[1].cb = "on_enter"
           /\ log[1].st = call.arg

C1_Witness ==
    /\ InitCall /\ pc = "idle"
    /\ Len(log) = 1 /\ log[1].resp = Handled
    /\ current_state = call.arg

\* C2: no init ever invokes on_exit; and when on_enter of the initial state X
\* answers Transition(Y) and on_enter of Y answers Handled, init has returned Ok
\* with current state Y after exactly on_enter(X), on_enter(Y).
C2_InitCascade ==
    /\ call.op = "init" => Exits(log) = {}
    /\ (InitCall /\ Len(log) >= 2 /\ log[1].resp.tag = "Transition" /\ log[2].resp = Handled)
          => /\ pc = "idle"
             /\ result = Ok
             /\ Len(log) = 2
             /\ log[1].cb = "on_enter" /\ log[1].st = call.arg
             /\ log[2].cb = "on_enter" /\ log[2].st = log[1].resp.s
             /\ current_state = log[1].resp.s

C2_Witness ==
    /\ InitCall /\ pc = "idle"
    /\ Len(log) = 2
    /\ log[1].resp.tag = "Transition" /\ log[1].resp.s # call.arg
    /\ log[2].resp = Handled
    /\ current_state = log[1].resp.s

\* C3: when the active state X answers an event with Transition(N), N # X,
\* on_exit(X) is the next callback and the only on_exit of the call, every
\* on_enter comes after it and the first one is on_enter(N); when process_event
\* has returned Ok the current state is the state of the last on_enter, which
\* settled the cascade.
C3_PostEventTransition ==
    EventCall =>
      \A i \in StateEvents(log) :
        (log[i].resp.tag = "Transition" /\ log[i].resp.s # call.pre)
          => /\ Exits(log) \subseteq {i + 1}
             /\ pc \notin {"transition_to", "panic"} => Exits(log) = {i + 1}
             /\ \A j \in Exits(log) : log[j].st = call.pre
             /\ \A j \in Enters(log) : j >= i + 2
             /\ Len(log) >= i + 2 => (log[i + 2].cb = "on_enter" /\ log[i + 2].st = log[i].resp.s)
             /\ (pc = "idle" /\ result = Ok)
                   => /\ Len(log) >= i + 2
                      /\ Settled(log[Len(log)])
                      /\ current_state = log[Len(log)].st

C3_Witness ==
    /\ EventCall /\ pc = "idle" /\ result = Ok
    /\ \E i \in StateEvents(log) :
          /\ log[i].resp.tag = "Transition" /\ log[i].resp.s # call.pre
          /\ Len(log) = i + 3
          /\ current_state = log[i + 3].st
          /\ current_state # log[i].resp.s

\* C4: when the global handler answers Transition(Z), Z # current state, the
\* active state's on_event is not invoked in that call, the next callbacks are
\* on_exit of the active state and on_enter(Z), every callback of the call is
\* handed the context the previous one left, and when the cascade has settled
\* the current state is the state it settled in.
C4_HandlerPrecedence ==
    (EventCall /\ Len(log) >= 1 /\ log[1].cb = "handler_on_event"
       /\ log[1].resp.tag = "Transition" /\ log[1].resp.s # call.pre)
        => /\ StateEvents(log) = {}
           /\ pc \notin {"transition_to", "panic"} => Len(log) >= 2
           /\ Len(log) >= 2 => (log[2].cb = "on_exit" /\ log[2].st = call.pre)
           /\ Len(log) >= 3 => (log[3].cb = "on_enter" /\ log[3].st = log[1].resp.s)
           /\ \A i \in 1..(Len(log) - 1) : log[i + 1].ctxIn = log[i].ctxOut
           /\ context = log[Len(log)].ctxOut
           /\ (pc = "idle" /\ Settled(log[Len(log)])) => current_state = log[Len(log)].st
           /\ pc # "idle" => current_state = call.pre

C4_Witness ==
    /\ EventCall /\ pc = "idle"
    /\ Len(log) = 4 /\ log[1].cb = "handler_on_event"
    /\ log[1].resp.tag = "Transition" /\ log[1].resp.s # call.pre
    /\ log[1].ctxOut > log[1].ctxIn
    /\ log[3].ctxIn = log[1].ctxOut
    /\ Settled(log[4])
    /\ current_state = log[4].st /\ current_state # log[1].resp.s

\* C5: when the active state answers an event with Transition(N), N # current
\* state, and an on_enter of the cascade answers Error, process_event has
\* returned an error and the current state is the one before the call (both
\* variants).
C5_RejectedTransition ==
    (EventCall
       /\ \E i \in StateEvents(log) : log[i].resp.tag = "Transition" /\ log[i].resp.s # call.pre
       /\ \E j \in Enters(log) : log[j].resp.tag = "Error")
        => /\ pc = "idle"
           /\ IsErr(result)
           /\ current_state = call.pre

C5_Witness ==
    /\ EventCall /\ pc = "idle" /\ variant = "async"
    /\ \E i \in StateEvents(log) : log[i].resp.tag = "Transition" /\ log[i].resp.s # call.pre
    /\ Len(log) >= 4 /\ log[Len(log)].cb = "on_enter" /\ log[Len(log)].resp.tag = "Error"
    /\ IsErr(result) /\ current_state = call.pre

\* C6: when the global handler answers Transition(Z), Z # current state, and an
\* on_enter of the cascade answers Error, process_event has returned an error
\* (not Ok) and the current state is the one before the call (both variants).
C6_HandlerTransitionError ==
    (EventCall /\ Len(log) >= 1 /\ log[1].cb = "handler_on_event"
       /\ log[1].resp.tag = "Transition" /\ log[1].resp.s # call.pre
       /\ \E j \in Enters(log) : log[j].resp.tag = "Error")
        => /\ pc = "idle"
           /\ IsErr(result)
           /\ current_state = call.pre

\* C7: a process_event call on an engine without current state returns
\* StateMachineNotInitialized at once, invokes no callback, and leaves current
\* state, context and behavior cache as they were.
C7_NotInitialized ==
    [][(pc = "idle" /\ current_state = None /\ call'.op = "process_event")
         => /\ pc' = "idle"
            /\ result' = StateMachineNotInitialized
            /\ log' = <<>>
            /\ UNCHANGED <<current_state, context, states>>]_vars

C7_Witness ==
    /\ call.op = "process_event" /\ call.pre = None
    /\ pc = "idle" /\ result = StateMachineNotInitialized
    /\ current_state = None /\ log = <<>>
    /\ states # {} /\ context > 0

\* C8: when the active state answers an event with Transition(current state),
\* process_event has returned Ok, no on_exit and no on_enter was invoked, and
\* the current state is unchanged.
C8_SelfTransitionNoop ==
    (EventCall /\ \E i \in StateEvents(log) : log[i].resp = Transition(call.pre))
        => /\ pc = "idle"
           /\ result = Ok
           /\ Exits(log) = {}
           /\ Enters(log) = {}
           /\ current_state = call.pre

C8_Witness ==
    /\ EventCall /\ pc = "idle" /\ result = Ok
    /\ \E i \in StateEvents(log) : log[i].resp = Transition(call.pre)
    /\ current_state = call.pre

\* C9: when an on_enter of an init cascade answers Error, init has returned an
\* error, there is no current state, and a process_event that follows returns
\* StateMachineNotInitialized.
FailedInit == InitCall /\ \E i \in Enters(log) : log[i].resp.tag = "Error"

C9_FailedInit ==
    [][FailedInit
         => /\ pc = "idle"
            /\ IsErr(result)
            /\ current_state = None
            /\ call'.op = "process_event"
                  => (pc' = "idle" /\ result' = StateMachineNotInitialized /\ current_state' = None)]_vars

C9_Witness ==
    /\ FailedInit /\ pc = "idle" /\ IsErr(result) /\ current_state = None
    /\ Len(log) >= 2

\* C10: when the active state answers an event with Error, process_event has
\* returned an error, no on_exit and no on_enter was invoked, and the current
\* state is unchanged.
C10_EventRejected ==
    (EventCall /\ \E i \in StateEvents(log) : log[i].resp.tag = "Error")
        => /\ pc = "idle"
           /\ IsErr(result)
           /\ Exits(log) = {}
           /\ Enters(log) = {}
           /\ current_state = call.pre

C10_Witness ==
    /\ EventCall /\ pc = "idle" /\ IsErr(result)
    /\ \E i \in StateEvents(log) : log[i].resp.tag = "Error"
    /\ current_state = call.pre /\ Exits(log) = {} /\ Enters(log) = {}

\* C11: when a call has returned, every Error(msg) answered by an on_enter of
\* the call is returned as StateInvalid(msg), every Error(msg) answered by an
\* on_event (active state or global handler) as InvalidEvent(msg), and the
\* result is never one of the other error kinds (StateNotFound, InternalError).
C11_ErrorKindMapping ==
    (pc = "idle" /\ call.op \in {"init", "process_event"})
        => /\ result.tag \in {"Ok", "StateInvalid", "InvalidEvent", "StateMachineNotInitialized"}
           /\ \A i \in 1..Len(log) :
                 log[i].resp.tag = "Error"
                    => IF log[i].cb = "on_enter"
                       THEN result = StateInvalid(log[i].resp.msg)
                       ELSE result = InvalidEvent(log[i].resp.msg)

\* C14: the global handler's on_event is invoked only as the first callback of
\* a process_event call, never during init, and every process_event call on an
\* initialized engine with a handler invokes it (exactly once, first).
C14_HandlerScope ==
    /\ HandlerEvents(log) \subseteq {1}
    /\ call.op = "init" => HandlerEvents(log) = {}
    /\ ~global_event_handler => HandlerEvents(log) = {}
    /\ (EventCall /\ global_event_handler)
          => \/ pc = "handler" /\ log = <<>>
             \/ HandlerEvents(log) = {1}

C14_Witness ==
    /\ EventCall /\ global_event_handler /\ pc = "idle"
    /\ Len(log) >= 4
    /\ HandlerEvents(log) = {1}
    /\ StateEvents(log) = {2}

\* C16: S::create is invoked at most once per state identity, exactly for the
\* identities that are keys of the cache, and no step removes a key.
C16_BehaviorCache ==
    [][/\ states \subseteq states'
       /\ \A s \in StateIds :
             /\ create_count'[s] <= 1
             /\ create_count'[s] = 1 <=> s \in states']_vars

C16_Witness ==
    /\ EventCall /\ pc = "idle" /\ result = Ok
    /\ \E i \in Enters(log) : log[i].st = call.pre
    /\ create_count[call.pre] = 1
    /\ states = StateIds

\* C17: in init, an on_enter that answers Transition to its own identity ends
\* the cascade: no further callback is invoked and the call has returned.
C17_InitSelfLoopGuard ==
    (InitCall /\ Len(log) >= 1 /\ log[Len(log)].resp = Transition(log[Len(log)].st))
        => pc = "idle"

\* C18: in the entry cascade of a transition, an on_enter(Y) that answers
\* Transition(Y) is the last callback of the call, process_event has returned
\* Ok, and Y is the current state.
C18_CascadeSelfLoopGuard ==
    EventCall =>
      \A i \in Enters(log) :
        log[i].resp = Transition(log[i].st)
          => /\ i = Len(log)
             /\ pc = "idle"
             /\ result = Ok
             /\ current_state = log[i].st

C18_Witness ==
    /\ EventCall /\ pc = "idle" /\ result = Ok
    /\ Len(log) >= 3
    /\ log[Len(log)].cb = "on_enter"
    /\ log[Len(log)].resp = Transition(log[Len(log)].st)
    /\ current_state = log[Len(log)].st
    /\ current_state # call.pre

\* C20: on_exit is never invoked on a state whose behavior already got on_exit
\* and no on_enter since (on_exit and on_enter of a state alternate), also
\* across calls that ended in an error.  on_exit is only ever invoked on the
\* current state, whose history exit_pending keeps.
C20_ExitAlternates ==
    [][(pc = "transition_to" /\ pc' = "transition_loop") => ~exit_pending]_vars

\* C12: in the counter-gate machine, State1 is only ever current with counter 0
\* or 1; a TransitionToState2 event sent to State1 at counter 0 returns an
\* error with State1 still current and the counter at 1 (the increment is
\* kept), and sent at counter 1 it returns Ok with State2 current and the
\* counter at 2.
C12_CounterGate ==
    scenario = "gate" =>
      /\ (pc = "idle" /\ current_state = State1) => context \in {0, 1}
      /\ (pc = "idle" /\ EventCall /\ call.pre = State1
            /\ call.arg = TestEvent_TransitionToState2)
           => /\ log[1].ctxIn = 0
                    => (IsErr(result) /\ current_state = State1 /\ context = 1)
              /\ log[1].ctxIn = 1
                    => (result = Ok /\ current_state = State2 /\ context = 2)

C12_Witness ==
    /\ scenario = "gate" /\ pc = "idle" /\ EventCall
    /\ call.pre = State1 /\ call.arg = TestEvent_TransitionToState2
    /\ log[1].ctxIn = 1
    /\ result = Ok /\ current_state = State2 /\ context = 2

\* the state the cycle machine is in after state s got event e
CycleNext(s, e) ==
    CASE s = A /\ e = TransitionToB -> B
      [] s = B /\ e = TransitionToC -> C
      [] s = C /\ e = TransitionToA -> A
      [] OTHER -> s

\* C13: in the cycle machine without handler, init leaves the counter at 1,
\* every process_event returns Ok, moves the machine only on the active state's
\* own event, adds exactly one to the counter when it changed the current state
\* and nothing when it did not (so the counter is 1 plus the number of calls
\* that changed the state); an event answered with Handled leaves both unchanged.
C13_CycleCounter ==
    (scenario = "cycle" /\ ~global_event_handler /\ pc = "idle")
        => /\ InitCall => (context = 1 /\ current_state = call.arg)
           /\ current_state = None <=> context = 0
           /\ EventCall
                => /\ result = Ok
                   /\ current_state = CycleNext(call.pre, call.arg)
                   /\ context = log[1].ctxIn + (IF current_state # call.pre THEN 1 ELSE 0)
                   /\ log[Len(log)].resp = Handled /\ log[Len(log)].cb = "on_event"
                         => (current_state = call.pre /\ context = log[1].ctxIn)

C13_Witness ==
    /\ scenario = "cycle" /\ ~global_event_handler /\ pc = "idle"
    /\ EventCall /\ call.arg = NoTransition
    /\ current_state = A /\ context = 4

\* what the synchronous engine returns, and the current state it leaves, for
\* call c when the callbacks it invoked answered as recorded in l
SyncOutcome(c, l) ==
    CASE c.op = "init" /\ c.pre # None -> [res |-> Ok, cur |-> c.pre]
      [] c.op = "init" /\ c.pre = None ->
            IF l[Len(l)].resp.tag = "Error"
            THEN [res |-> StateInvalid(l[Len(l)].resp.msg), cur |-> None]
            ELSE [res |-> Ok, cur |-> l[Len(l)].st]
      [] c.op = "process_event" /\ c.pre = None ->
            [res |-> StateMachineNotInitialized, cur |-> None]
      [] c.op = "process_event" /\ c.pre # None ->
            IF l[Len(l)].cb = "on_enter"
            THEN IF l[Len(l)].resp.tag = "Error"
                 THEN [res |-> StateInvalid(l[Len(l)].resp.msg), cur |-> c.pre]
                 ELSE [res |-> Ok, cur |-> l[Len(l)].st]
            ELSE IF l[Len(l)].resp.tag = "Error"
                 THEN [res |-> InvalidEvent(l[Len(l)].resp.msg), cur |-> c.pre]
                 ELSE [res |-> Ok, cur |-> c.pre]

\* C15: whichever variant the engine is, a call that has returned has returned
\* what the synchronous engine returns for the same call and the same callback
\* answers, and has left the same current state.
C15_SyncAsyncEquivalence ==
    (pc = "idle" /\ call.op \in {"init", "process_event"})
        => /\ result = SyncOutcome(call, log).res
           /\ current_state = SyncOutcome(call, log).cur

\* C19: in the machine where on_enter of A always asks for B and on_enter of B
\* always asks for A, a cascade (of init or of a transition) whose candidate is
\* A or B only ever takes one more on_enter step to the other of the two: the
\* call does not return and the current state is never set by it.
C19_UnguardedCycle ==
    [][(scenario = "pingpong" /\ pc \in {"init_loop", "transition_loop"} /\ next_state \in {A, B})
         => /\ pc' = pc
            /\ next_state' \in {A, B} /\ next_state' # next_state
            /\ log' = Append(log, log'[Len(log')])
            /\ log'[Len(log')].cb = "on_enter" /\ log'[Len(log')].st = next_state
            /\ result' = NoResult
            /\ UNCHANGED current_state]_vars

C19_Witness ==
    /\ scenario = "pingpong" /\ pc = "transition_loop"
    /\ Cardinality(Enters(log)) >= 4
    /\ \A i \in Enters(log) : i + 1 \in Enters(log) => log[i + 1].st # log[i].st
    /\ result = NoResult

\* C21: within one process_event call on_exit is invoked at most once and only
\* on the state that was current when the call started, before every on_enter
\* of the call; a state whose on_enter answers Transition to a different state
\* is passed through: the callback that follows is on_enter of the requested
\* state, not an on_exit.
C21_PassThroughNoExit ==
    EventCall =>
      /\ Cardinality(Exits(log)) <= 1
      /\ \A j \in Exits(log) :
            /\ log[j].st = call.pre
            /\ \A k \in Enters(log) : k > j
      /\ \A i \in Enters(log) :
            (log[i].resp.tag = "Transition" /\ log[i].resp.s # log[i].st /\ Len(log) > i)
               => /\ log[i + 1].cb = "on_enter"
                  /\ log[i + 1].st = log[i].resp.s

C21_Witness ==
    /\ EventCall /\ pc = "idle" /\ result = Ok
    /\ Cardinality(Exits(log)) = 1
    /\ \E i \in Enters(log) :
          /\ log[i].resp.tag = "Transition" /\ log[i].resp.s # log[i].st
          /\ log[i].st # call.pre
          /\ Len(log) = i + 1
          /\ current_state = log[i + 1].st

\* C22: when the global handler's on_event answers Error, process_event has
\* returned an error, the handler's on_event is the only callback of the call
\* (no on_event of the active state, no on_exit, no on_enter), and the current
\* state is the one before the call.
C22_HandlerRejection ==
    (EventCall /\ Len(log) >= 1 /\ log[1].cb = "handler_on_event"
       /\ log[1].resp.tag = "Error")
        => /\ pc = "idle"
           /\ IsErr(result)
           /\ Len(log) = 1
           /\ StateEvents(log) = {} /\ Exits(log) = {} /\ Enters(log) = {}
           /\ current_state = call.pre

C22_Witness ==
    /\ EventCall /\ pc = "idle" /\ IsErr(result)
    /\ Len(log) = 1 /\ log[1].cb = "handler_on_event" /\ log[1].resp.tag = "Error"
    /\ current_state = call.pre

\* C23: every step of a process_event call that has invoked no on_exit and no
\* on_enter leaves the behavior cache as it was; and once the global handler
\* (if any) has answered Handled and the active state's on_event has answered
\* Handled, process_event has returned Ok, that on_event is the only on_event
\* of the call, no on_enter and no on_exit was invoked, and the current state
\* is the one before the call.
C23_HandledFrame ==
    [][/\ (call'.op = "process_event" /\ Enters(log') = {} /\ Exits(log') = {})
             => states' = states
       /\ (/\ call'.op = "process_event" /\ call'.pre # None
           /\ Len(log') >= 1
           /\ log'[Len(log')].cb = "on_event"
           /\ log'[Len(log')].resp = Handled
           /\ \A h \in HandlerEvents(log') : log'[h].resp = Handled)
             => /\ pc' = "idle"
                /\ result' = Ok
                /\ StateEvents(log') = {Len(log')}
                /\ log'[Len(log')].st = call'.pre
                /\ Enters(log') = {} /\ Exits(log') = {}
                /\ current_state' = call'.pre]_vars

C23_Witness ==
    /\ EventCall /\ pc = "idle" /\ result = Ok
    /\ Len(log) = 2
    /\ log[1].cb = "handler_on_event" /\ log[1].resp = Handled
    /\ log[2].cb = "on_event" /\ log[2].resp = Handled
    /\ current_state = call.pre
    /\ Cardinality(states) >= 2

\* C25: no step takes the current state from set to unset; and a step changes
\* the current state only when it is the on_enter that ends a cascade (init's
\* or transition_to's) without Error: the call returns Ok with that step and
\* the new current state is the state whose on_enter was just invoked.
C25_StaysInitialized ==
    [][/\ current_state # None => current_state' # None
       /\ current_state' # current_state
             => /\ pc \in {"init_loop", "transition_loop"}
                /\ pc' = "idle"
                /\ result' = Ok
                /\ Len(log') = Len(log) + 1
                /\ log'[Len(log')].cb = "on_enter"
                /\ log'[Len(log')].resp.tag # "Error"
                /\ log'[Len(log')].st = current_state']_vars

C25_Witness ==
    /\ EventCall /\ pc = "idle" /\ variant = "sync"
    /\ log[1].cb = "handler_on_event"
    /\ Len(log) >= 4 /\ log[Len(log)].cb = "on_enter" /\ log[Len(log)].resp.tag = "Error"
    /\ IsErr(result)
    /\ current_state = call.pre

\* C26: whenever the current state is set it is a key of the behavior cache,
\* and the lookup of the current state at the start of transition_to never
\* fails.
C26_CurrentStateCached ==
    /\ current_state # None => current_state \in states
    /\ pc # "panic"

C26_Witness ==
    /\ EventCall /\ pc = "transition_loop" /\ origin = "handler"
    /\ Len(log) = 2 /\ log[2].cb = "on_exit" /\ log[2].st = current_state
    /\ current_state \in states

\* C27: an init call, whatever its argument, on an engine that has a current
\* state returns Ok at once, invokes no callback, and leaves current state,
\* context and behavior cache as they were.
C27_InitIdempotent ==
    [][(pc = "idle" /\ current_state # None /\ call'.op = "init")
         => /\ pc' = "idle"
            /\ result' = Ok
            /\ log' = <<>>
            /\ UNCHANGED <<current_state, context, states, create_count>>]_vars

C27_Witness ==
    /\ call.op = "init" /\ call.pre # None
    /\ call.arg # call.pre /\ call.arg \notin states
    /\ pc = "idle" /\ result = Ok /\ log = <<>>
    /\ current_state = call.pre /\ context > 0

\* C28: when the global handler answers Transition(current state), the handler
\* triggers no on_exit and no on_enter: the next callback is on_event of the
\* active state, and that response decides the call as it does without a
\* handler: Handled and Transition(current state) return Ok with no further
\* callback, Error returns an error with no further callback, and
\* Transition(N), N # current state, is followed by on_exit of the active state.
C28_HandlerSelfTransition ==
    (EventCall /\ Len(log) >= 1 /\ log[1].cb = "handler_on_event"
       /\ log[1].resp = Transition(call.pre))
        => /\ Len(log) = 1 => (pc = "event" /\ current_state = call.pre)
           /\ Len(log) >= 2 =>
                 /\ log[2].cb = "on_event" /\ log[2].st = call.pre
                 /\ log[2].ctxIn = log[1].ctxOut
                 /\ (log[2].resp = Handled \/ log[2].resp = Transition(call.pre))
                       => (pc = "idle" /\ result = Ok /\ Len(log) = 2
                           /\ current_state = call.pre)
                 /\ log[2].resp.tag = "Error"
                       => (pc = "idle" /\ result = InvalidEvent(log[2].resp.msg)
                           /\ Len(log) = 2 /\ current_state = call.pre)
                 /\ (log[2].resp.tag = "Transition" /\ log[2].resp.s # call.pre)
                       => /\ pc \in {"transition_to", "transition_loop", "idle"}
                          /\ pc # "transition_to" => Len(log) >= 3
                          /\ Len(log) >= 3 => (log[3].cb = "on_exit" /\ log[3].st = call.pre)
                          /\ pc = "idle" => /\ result = SyncOutcome(call, log).res
                                            /\ current_state = SyncOutcome(call, log).cur

C28_Witness ==
    /\ EventCall /\ pc = "idle" /\ result = Ok
    /\ Len(log) = 4
    /\ log[1].cb = "handler_on_event" /\ log[1].resp = Transition(call.pre)
    /\ log[2].cb = "on_event" /\ log[2].resp.tag = "Transition" /\ log[2].resp.s # call.pre
    /\ log[3].cb = "on_exit"
    /\ current_state = log[4].st /\ current_state # call.pre

\* C29: in one process_event call the global handler's on_event is invoked at
\* most once, a state's on_event at most once and only on the state that was
\* current when the call started, on_exit at most once; and no on_event comes
\* after an on_enter, so on_event is never delivered to a state entered or
\* passed through during the call.
C29_CallbackBounds ==
    EventCall =>
      /\ Cardinality(HandlerEvents(log)) <= 1
      /\ Cardinality(StateEvents(log)) <= 1
      /\ Cardinality(Exits(log)) <= 1
      /\ \A i \in StateEvents(log) :
            /\ log[i].st = call.pre
            /\ \A k \in Enters(log) : i < k
      /\ \A h \in HandlerEvents(log) : \A k \in Enters(log) : h < k

C29_Witness ==
    /\ EventCall /\ pc = "idle"
    /\ Cardinality(HandlerEvents(log)) = 1
    /\ Cardinality(StateEvents(log)) = 1
    /\ Cardinality(Exits(log)) = 1
    /\ Cardinality(Enters(log)) >= 2
    /\ current_state # call.pre

\* C30: when on_event of the active state A answers Transition(B), B # A, and
\* on_enter(B) answers Transition(A), the cascade goes on to A (the comparison
\* with the current state is made for the first hop only); when on_enter(A)
\* then answers Handled, process_event has returned Ok with current state A
\* after exactly on_exit(A), on_enter(B), on_enter(A).
C30_SettleBack ==
    EventCall =>
      \A i \in StateEvents(log) :
        (/\ log[i].resp.tag = "Transition" /\ log[i].resp.s # call.pre
         /\ Len(log) >= i + 2
         /\ log[i + 2].resp = Transition(call.pre))
          => /\ log[i + 1].cb = "on_exit" /\ log[i + 1].st = call.pre
             /\ log[i + 2].cb = "on_enter" /\ log[i + 2].st = log[i].resp.s
             /\ Len(log) = i + 2 => (pc = "transition_loop" /\ next_state = call.pre)
             /\ Len(log) >= i + 3 => (log[i + 3].cb = "on_enter" /\ log[i + 3].st = call.pre)
             /\ (Len(log) >= i + 3 /\ log[i + 3].resp = Handled)
                   => /\ pc = "idle"
                      /\ result = Ok
                      /\ current_state = call.pre
                      /\ Len(log) = i + 3

C30_Witness ==
    /\ EventCall /\ pc = "idle" /\ result = Ok
    /\ \E i \in StateEvents(log) :
          /\ log[i].resp.tag = "Transition" /\ log[i].resp.s # call.pre
          /\ Len(log) = i + 3
          /\ log[i + 1].cb = "on_exit"
          /\ log[i + 2].cb = "on_enter" /\ log[i + 2].resp = Transition(call.pre)
          /\ log[i + 3].cb = "on_enter" /\ log[i + 3].st = call.pre
          /\ log[i + 3].resp = Handled
    /\ current_state = call.pre

\* C24: in the asynchronous engine at most one callback has started and not
\* completed, and it is the callback of the position the running call is
\* suspended at; a callback starts only when none is in flight, so after the
\* previous callback of the call has completed; and a callback's answer is
\* taken only from the callback in flight, which completes with that step.
C24_OneInFlight ==
    [][/\ Cardinality(in_flight') <= 1
       /\ in_flight' # {} => in_flight' = {PendingCallback'}
       /\ in_flight' \ in_flight # {} => (in_flight = {} /\ log' = log)
       /\ Len(log') > Len(log) =>
             /\ in_flight = {[cb |-> log'[Len(log')].cb, st |-> log'[Len(log')].st]}
             /\ in_flight' = {}]_vars

C24_Witness ==
    /\ variant = "async" /\ EventCall
    /\ pc = "transition_loop"
    /\ Len(log) = 4
    /\ log[1].cb = "handler_on_event" /\ log[2].cb = "on_event"
    /\ log[3].cb = "on_exit" /\ log[4].cb = "on_enter"
    /\ in_flight = {[cb |-> "on_enter", st |-> next_state]}

\* C31: an init that follows an init whose cascade ended in Error starts a new
\* entry cascade from its argument, with the cache and the context the failed
\* attempt left (the context its last callback returned); and every on_enter of
\* an init cascade is invoked on the candidate with the context as it is,
\* invokes the factory only when the candidate is not cached yet, drops nothing
\* from the cache, and when it ends the cascade without Error the call returns
\* Ok with the candidate that settled as current state.
C31_InitRetry ==
    [][/\ (FailedInit /\ call'.op = "init")
             => /\ pc' = "init_loop"
                /\ next_state' = call'.arg
                /\ log' = <<>>
                /\ context = log[Len(log)].ctxOut
                /\ UNCHANGED <<states, context, create_count, current_state>>
       /\ (InitCall /\ pc = "init_loop" /\ Len(log') > Len(log))
             => /\ log'[Len(log')].cb = "on_enter"
                /\ log'[Len(log')].st = next_state
                /\ log'[Len(log')].ctxIn = context
                /\ Len(log) = 0 => next_state = call.arg
                /\ states' = states \cup {next_state}
                /\ create_count' = IF next_state \in states THEN create_count
                                   ELSE [create_count EXCEPT ![next_state] = @ + 1]
                /\ (pc' = "idle" /\ log'[Len(log')].resp.tag # "Error")
                      => (result' = Ok /\ current_state' = next_state)]_vars

C31_Witness ==
    /\ InitCall /\ pc = "idle" /\ result = Ok
    /\ Len(log) = 1 /\ log[1].st = call.arg
    /\ log[1].ctxIn > 0
    /\ states = {call.arg}
    /\ create_count[call.arg] = 1
    /\ current_state = call.arg

====
